---------------------------- MODULE Spec2Model ----------------------------
(***************************************************************************)
(* Model of the file consumer of buzzline-05:                              *)
(*   consumers/file_consumer_sushanta.py  the polling loop, process_message *)
(*   consumers/db_sqlite_case.py          init_db, insert_message,         *)
(*                                        delete_message on SQLite         *)
(*                                                                         *)
(* Specifications:                                                         *)
(*   Spec / FairSpec  one run of main() -> consume_messages_from_file      *)
(*   GatewaySpec      arbitrary sequences of init_db / insert_message /    *)
(*                    delete_message calls on one database file            *)
(*   ClassifySpec     categorize_message_length applied to each length     *)
(***************************************************************************)
EXTENDS Integers, Sequences, FiniteSets, TLC

(***************************************************************************)
(* Bounds of the model.                                                    *)
(***************************************************************************)
\* records the loop may handle in one run (the environment stops offering
\* batches once the budget is used; the loop itself keeps polling)
MaxHandled == 4
\* completed cycles are counted up to this value, then the counter saturates
MaxCycles == 3
\* gateway calls in one behaviour of GatewaySpec
MaxCalls == 5
\* largest message length given to categorize_message_length on its own
MaxLength == 60

(***************************************************************************)
(* JSON values.  A decoded JSON value is a tagged record; a Python str is  *)
(* a sequence of one-character strings so that int(str) can be computed.   *)
(***************************************************************************)
Str(cs) == [t |-> "str", n |-> 0, s |-> cs]
Int_(k) == [t |-> "int", n |-> k, s |-> <<>>]
Null == [t |-> "null", n |-> 0, s |-> <<>>]
List == [t |-> "list", n |-> 0, s |-> <<>>]

Digits == {"0", "1", "2", "3", "4", "5", "6", "7", "8", "9"}

DigitVal(c) ==
    CASE c = "0" -> 0 [] c = "1" -> 1 [] c = "2" -> 2 [] c = "3" -> 3
      [] c = "4" -> 4 [] c = "5" -> 5 [] c = "6" -> 6 [] c = "7" -> 7
      [] c = "8" -> 8 [] c = "9" -> 9

RECURSIVE Strip(_)
\* str.strip() as int() applies it to its argument: blanks at both ends go
Strip(cs) ==
    IF cs = <<>> THEN cs
    ELSE IF Head(cs) = " " THEN Strip(Tail(cs))
    ELSE IF cs[Len(cs)] = " " THEN Strip(SubSeq(cs, 1, Len(cs) - 1))
    ELSE cs

RECURSIVE DigitsValue(_, _)
\* value of a run of decimal digits, most significant first
DigitsValue(cs, acc) ==
    IF cs = <<>> THEN acc
    ELSE DigitsValue(Tail(cs), 10 * acc + DigitVal(Head(cs)))

AllDigits(cs) == cs # <<>> /\ \A i \in 1..Len(cs) : cs[i] \in Digits

\* int(<str>): optional blanks, optional sign, one or more decimal digits;
\* anything else raises ValueError
ParseInt(cs) ==
    LET b == Strip(cs)
        signed == b # <<>> /\ Head(b) \in {"+", "-"}
        body == IF signed THEN Tail(b) ELSE b
        mag == DigitsValue(body, 0)
    IN  IF AllDigits(body)
        THEN [ok |-> TRUE, val |-> IF signed /\ Head(b) = "-" THEN 0 - mag ELSE mag]
        ELSE [ok |-> FALSE, val |-> 0]

\* int(v) for a decoded JSON value v: an int is kept, a str is parsed,
\* None and a list raise TypeError
IntOf(v) ==
    CASE v.t = "int" -> [ok |-> TRUE, val |-> v.n]
      [] v.t = "str" -> ParseInt(v.s)
      [] OTHER -> [ok |-> FALSE, val |-> 0]

\* a value sqlite3 can bind as a statement parameter
Bindable(v) == v.t \in {"int", "str", "null"}

(***************************************************************************)
(* categorize_message_length                                               *)
(***************************************************************************)
ShortLimit == 20
MediumLimit == 50

\* the mutant puts the length 20 itself into the Short band
categorize_message_length_le(message_length) ==
    IF message_length <= ShortLimit THEN "Short"
    ELSE IF message_length < MediumLimit THEN "Medium"
    ELSE "Long"

categorize_message_length(message_length) ==
    IF message_length < ShortLimit THEN "Short"
    ELSE IF message_length < MediumLimit THEN "Medium"
    ELSE "Long"


(***************************************************************************)
(* process_message                                                         *)
(***************************************************************************)
Unknown == <<"U", "n", "k", "n", "o", "w", "n">>
Uncategorized ==
    <<"U", "n", "c", "a", "t", "e", "g", "o", "r", "i", "z", "e", "d">>
NoneWord == <<"N", "o", "n", "e">>

\* a decoded array element: a JSON object (isDict, with its members in f)
\* or some other JSON value, which has no .get
Dict(members) == [isDict |-> TRUE, f |-> members]
NotADict == [isDict |-> FALSE, f |-> [message |-> Null]]

\* dict.get(key, default): the default is used only when the key is absent
Get(message, key, default) ==
    IF key \in DOMAIN message.f THEN message.f[key] ELSE default

NoRecord ==
    [author |-> Null, timestamp |-> Null, message |-> Null, category |-> Null,
     keyword_mentioned |-> Null, message_length |-> 0, length_category |-> "Short"]

\* the mutant categorizes by the length of the message text instead of
\* the message_length it stores
process_message_ByText(message) ==
    LET len == IF message.isDict THEN IntOf(Get(message, "message_length", Int_(0)))
               ELSE [ok |-> FALSE, val |-> 0]
        text == IF message.isDict THEN Get(message, "message", Str(<<>>)) ELSE Null
    IN  IF ~message.isDict \/ ~len.ok
        THEN [ok |-> FALSE, rec |-> NoRecord]
        ELSE [ok |-> TRUE,
              rec |-> [author |-> Get(message, "author", Str(Unknown)),
                       timestamp |-> Get(message, "timestamp", Str(<<>>)),
                       message |-> Get(message, "message", Str(<<>>)),
                       category |-> Get(message, "category", Str(Uncategorized)),
                       keyword_mentioned |-> Get(message, "keyword_mentioned", Str(NoneWord)),
                       message_length |-> len.val,
                       length_category |->
                           categorize_message_length(
                               IF text.t = "str" THEN Len(text.s) ELSE 0)]]

\* ok = FALSE is the None the function returns after logging the exception
process_message(message) ==
    LET len == IF message.isDict THEN IntOf(Get(message, "message_length", Int_(0)))
               ELSE [ok |-> FALSE, val |-> 0]
    IN  IF ~message.isDict \/ ~len.ok
        THEN [ok |-> FALSE, rec |-> NoRecord]
        ELSE [ok |-> TRUE,
              rec |-> [author |-> Get(message, "author", Str(Unknown)),
                       timestamp |-> Get(message, "timestamp", Str(<<>>)),
                       message |-> Get(message, "message", Str(<<>>)),
                       category |-> Get(message, "category", Str(Uncategorized)),
                       keyword_mentioned |-> Get(message, "keyword_mentioned", Str(NoneWord)),
                       message_length |-> len.val,
                       length_category |-> categorize_message_length(len.val)]]

(***************************************************************************)
(* The SQLite file: whether streamed_messages exists, its rows, and the    *)
(* sqlite_sequence entry that AUTOINCREMENT keeps for it.                  *)
(***************************************************************************)
NoTable == [exists |-> FALSE, rows |-> {}, seq |-> 0]
EmptyTable == [exists |-> TRUE, rows |-> {}, seq |-> 0]

\* what an earlier run of the consumer left in the file: one stored row
OldRow ==
    [id |-> 1, message |-> Str(<<"o", "l", "d">>), author |-> Str(Unknown),
     timestamp |-> Str(<<>>), category |-> Str(Uncategorized),
     keyword_mentioned |-> Str(NoneWord), message_length |-> 3,
     length_category |-> "Short"]
OldTable == [exists |-> TRUE, rows |-> {OldRow}, seq |-> 1]

RowIds(d) == {r.id : r \in d.rows}

MaxOf(S) == IF S = {} THEN 0 ELSE CHOOSE x \in S : \A y \in S : y <= x

\* the mutant is a plain INTEGER PRIMARY KEY: one more than the largest
\* rowid now in the table, so the id of a deleted last row is given again
NextRowId_NoAutoincrement(d) == MaxOf(RowIds(d)) + 1

\* id INTEGER PRIMARY KEY AUTOINCREMENT: one more than the largest rowid the
\* table has ever held, which sqlite_sequence remembers across deletes
NextRowId(d) == MaxOf(RowIds(d) \cup {d.seq}) + 1

RECURSIVE NatToChars(_)
NatToChars(k) ==
    LET c == CHOOSE x \in Digits : DigitVal(x) = k % 10
    IN  IF k < 10 THEN <<c>> ELSE Append(NatToChars(k \div 10), c)

\* a value stored in a TEXT column: an integer is converted to its decimal
\* text, text and NULL are kept
ColumnText(v) ==
    IF v.t = "int"
    THEN Str(IF v.n < 0 THEN <<"-">> \o NatToChars(0 - v.n) ELSE NatToChars(v.n))
    ELSE v

InitOutcomes == {"ok", "connect_failed", "create_failed"}

\* the mutant leaves out DROP TABLE: CREATE TABLE IF NOT EXISTS keeps an
\* existing table and its rows
init_db_keep(d, outcome) ==
    IF outcome = "connect_failed" THEN d
    ELSE IF outcome = "create_failed" THEN d
    ELSE IF d.exists THEN d ELSE EmptyTable

\* makedirs, connect, DROP TABLE IF EXISTS, CREATE TABLE, commit; every
\* exception is logged and swallowed.  The two DDL statements run in
\* autocommit, so a failure between them leaves the file without the table.
init_db(d, outcome) ==
    IF outcome = "connect_failed" THEN d
    ELSE IF outcome = "create_failed" THEN NoTable
    ELSE EmptyTable

TextFields(message) ==
    {message.message, message.author, message.timestamp, message.category,
     message.keyword_mentioned}

\* whether the INSERT of insert_message commits
InsertCommits(d, message, ok) ==
    ok /\ d.exists /\ \A v \in TextFields(message) : Bindable(v)

NewRow(d, message) ==
    [id |-> NextRowId(d),
     message |-> ColumnText(message.message),
     author |-> ColumnText(message.author),
     timestamp |-> ColumnText(message.timestamp),
     category |-> ColumnText(message.category),
     keyword_mentioned |-> ColumnText(message.keyword_mentioned),
     message_length |-> message.message_length,
     length_category |-> message.length_category]

\* connect, INSERT with the seven fields bound in column order, commit;
\* every exception is logged and swallowed, the caller is told nothing
insert_message(d, message, ok) ==
    IF InsertCommits(d, message, ok)
    THEN [d EXCEPT !.rows = @ \cup {NewRow(d, message)}, !.seq = NextRowId(d)]
    ELSE d

\* the mutant compares with <= and so deletes older rows as well
delete_message_upto(d, message_id, ok) ==
    IF ok /\ d.exists
    THEN [d EXCEPT !.rows = {r \in @ : ~(r.id <= message_id)}]
    ELSE d

\* connect, DELETE ... WHERE id = ?, commit; exceptions logged and swallowed
delete_message(d, message_id, ok) ==
    IF ok /\ d.exists
    THEN [d EXCEPT !.rows = {r \in @ : r.id # message_id}]
    ELSE d

(***************************************************************************)
(* The live data file.  Each poll reads one of these contents.             *)
(***************************************************************************)
r15 ==
    Dict([message |-> Str(<<"h", "i">>), author |-> Str(<<"A">>),
          message_length |-> Int_(15)])
rAbsent == Dict([message |-> Str(<<"y", "o">>)])
rNeg == Dict([message_length |-> Int_(0 - 5)])
rWord == Dict([message_length |-> Str(<<"a", "b", "c">>)])
rNumStr == Dict([message_length |-> Str(<<" ", "2", "5">>)])
rLong == Dict([author |-> Int_(7), message_length |-> Int_(60)])
rList == Dict([author |-> List, message_length |-> Int_(20)])
rNull == Dict([message_length |-> Null])

Batches ==
    {<<>>, <<r15, rAbsent>>, <<rNeg, rNumStr>>, <<rWord, NotADict, rLong>>,
     <<rList, r15>>, <<rNull>>}

Array(items) == [kind |-> "array", items |-> items]
Missing == [kind |-> "missing", items |-> <<>>]
Undecodable == [kind |-> "undecodable", items |-> <<>>]
NotIterable == [kind |-> "not_iterable", items |-> <<>>]
NotRead == [kind |-> "not_read", items |-> <<>>]

(***************************************************************************)
(* State                                                                   *)
(***************************************************************************)
VARIABLES
    pc,               \* where main() / consume_messages_from_file stands
    db,               \* the SQLite file at sql_path
    message_lengths,  \* the tally dict of consume_messages_from_file
    messages,         \* the batch decoded by json.load in this cycle
    idx,              \* position of the for loop in messages (1-based)
    hist,             \* history of the run, written but never read by the code
    gw,               \* history of the gateway calls of GatewaySpec
    fn                \* the last call of categorize_message_length on its own

vars == <<pc, db, message_lengths, messages, idx, hist, gw, fn>>

Categories == {"Short", "Medium", "Long"}

ZeroCounts == [c \in Categories |-> 0]

CountSum(m) == m["Short"] + m["Medium"] + m["Long"]

MaxBatchLen == MaxOf({Len(b) : b \in Batches})

NoAttempts == [i \in 1..MaxBatchLen |-> 0]

HistInit ==
    [initOutcome |-> "none",    \* what the init_db call of this run did
     interrupted |-> FALSE,     \* a KeyboardInterrupt was delivered
     exitedFrom |-> "none",     \* pc at which it was delivered
     handled |-> 0,             \* records taken from batches so far
     rowsAdded |-> 0,           \* inserts of the loop that committed
     stored |-> {},             \* the ids of the rows they added
     insertsFailed |-> 0,       \* inserts of the loop that did not
     cycles |-> 0,              \* completed cycles (saturates at MaxCycles)
     lastCycle |-> "none",      \* how the last finished cycle ended
     source |-> NotRead,        \* what the first poll read
     unchanged |-> TRUE,        \* every poll so far read the same content
     charts |-> 0,              \* generate_chart calls in this cycle
     normalized |-> NoAttempts, \* process_message calls per batch position
     inserted |-> NoAttempts,   \* insert_message calls per batch position
     kind |-> NotRead.kind,     \* what the last read of the file gave
     initCalls |-> 0,           \* init_db calls of this run
     sleeps |-> 0,              \* time.sleep calls since the last read
     chartArg |-> ZeroCounts,   \* what generate_chart was given in this cycle
     batchNo |-> 0,             \* non-empty batches read so far
     prov |-> <<>>]             \* per stored row: its id, batch and position

NotCalled == [n |-> 0, label |-> "none"]

GwInit ==
    [calls |-> 0,             \* gateway calls made so far
     op |-> "none",           \* the last call: "init", "insert" or "delete"
     arg |-> 0,               \* message_id of the last delete_message
     outcome |-> "ok",        \* what SQLite let the last call do
     before |-> NoTable,      \* the file before the last call
     assigned |-> <<>>,       \* ids given to rows since the table was made
     msg |-> NoRecord,        \* the record given to the last insert_message
     open |-> 0]              \* connections opened by the calls and not closed

Init ==
    /\ pc = "start"
    /\ db \in {NoTable, EmptyTable, OldTable}
    /\ message_lengths = ZeroCounts
    /\ messages = <<>>
    /\ idx = 0
    /\ hist = HistInit
    /\ gw = [GwInit EXCEPT !.assigned = IF db = OldTable THEN <<OldRow.id>> ELSE <<>>]
    /\ fn = NotCalled

(***************************************************************************)
(* main() and consume_messages_from_file                                   *)
(***************************************************************************)
\* init_db(sql_path), then message_lengths = {"Short": 0, ...}; init_db
\* returns nothing, so the loop is entered whatever happened in it
Start ==
    /\ pc = "start"
    /\ \E outcome \in InitOutcomes :
          /\ db' = init_db(db, outcome)
          /\ hist' = [hist EXCEPT !.initOutcome = outcome, !.initCalls = @ + 1]
    /\ message_lengths' = ZeroCounts
    /\ pc' = "poll"
    /\ UNCHANGED <<messages, idx, gw, fn>>

\* history of one open()/json.load() of the live data file
Read(content) ==
    [hist EXCEPT !.source = IF @ = NotRead THEN content ELSE @,
                 !.unchanged = @ /\ hist.source \in {NotRead, content},
                 !.kind = content.kind,
                 !.lastCycle = "none",
                 !.charts = 0,
                 !.normalized = NoAttempts,
                 !.inserted = NoAttempts,
                 !.sleeps = 0,
                 !.chartArg = ZeroCounts]

\* open() raises FileNotFoundError: log, sleep, continue
PollMissing ==
    /\ pc = "poll"
    /\ hist' = [Read(Missing) EXCEPT !.lastCycle = "missing"]
    /\ pc' = "sleep"
    /\ UNCHANGED <<db, message_lengths, messages, idx, gw, fn>>

\* the mutant keeps the records that were parsed before the decoder
\* failed and counts one of them
PollUndecodable_Partial ==
    /\ pc = "poll"
    /\ hist' = [Read(Undecodable) EXCEPT !.lastCycle = "decode"]
    /\ message_lengths' = [message_lengths EXCEPT !["Short"] = @ + 1]
    /\ pc' = "sleep"
    /\ UNCHANGED <<db, messages, idx, gw, fn>>

\* json.load raises JSONDecodeError: log, sleep, continue
PollUndecodable ==
    /\ pc = "poll"
    /\ hist' = [Read(Undecodable) EXCEPT !.lastCycle = "decode"]
    /\ pc' = "sleep"
    /\ UNCHANGED <<db, message_lengths, messages, idx, gw, fn>>

\* the file decodes to a JSON number: "for message in messages" raises
\* TypeError, which the except Exception branch logs before it sleeps
PollNotIterable ==
    /\ pc = "poll"
    /\ hist' = [Read(NotIterable) EXCEPT !.lastCycle = "other"]
    /\ pc' = "sleep"
    /\ UNCHANGED <<db, message_lengths, messages, idx, gw, fn>>

\* the mutant creates the tally inside while True, so that every batch
\* starts from zero counts
PollBatch_ResetsCounts ==
    /\ pc = "poll"
    /\ \E items \in Batches :
          /\ hist.handled + Len(items) <= MaxHandled
          /\ messages' = items
          /\ hist' = [Read(Array(items)) EXCEPT
                         !.batchNo = IF items = <<>> THEN @ ELSE @ + 1]
    /\ message_lengths' = ZeroCounts
    /\ idx' = 1
    /\ pc' = "process"
    /\ UNCHANGED <<db, gw, fn>>

\* the file decodes to an array: the for loop starts at its first element
PollBatch ==
    /\ pc = "poll"
    /\ \E items \in Batches :
          /\ hist.handled + Len(items) <= MaxHandled
          /\ messages' = items
          /\ hist' = [Read(Array(items)) EXCEPT
                         !.batchNo = IF items = <<>> THEN @ ELSE @ + 1]
    /\ idx' = 1
    /\ pc' = "process"
    /\ UNCHANGED <<db, message_lengths, gw, fn>>

Bump(f, i) == [f EXCEPT ![i] = @ + 1]

\* the mutant lets the failure of one record end the for loop: the rest
\* of the batch is not handled
Skip_AbortsBatch ==
    /\ pc = "process"
    /\ idx <= Len(messages)
    /\ ~process_message(messages[idx]).ok
    /\ idx' = Len(messages) + 1
    /\ hist' = [hist EXCEPT !.handled = @ + 1, !.normalized = Bump(@, idx)]
    /\ UNCHANGED <<pc, db, message_lengths, messages, gw, fn>>

\* process_message returned None: "if processed_message" skips the record
Skip ==
    /\ pc = "process"
    /\ idx <= Len(messages)
    /\ ~process_message(messages[idx]).ok
    /\ idx' = idx + 1
    /\ hist' = [hist EXCEPT !.handled = @ + 1, !.normalized = Bump(@, idx)]
    /\ UNCHANGED <<pc, db, message_lengths, messages, gw, fn>>

\* process_message returned a record: insert_message(processed_message,
\* sql_path) is called once; ok is whether SQLite could be reached
Insert ==
    /\ pc = "process"
    /\ idx <= Len(messages)
    /\ process_message(messages[idx]).ok
    /\ \E ok \in BOOLEAN :
          LET rec == process_message(messages[idx]).rec
              stored == InsertCommits(db, rec, ok)
          IN  /\ db' = insert_message(db, rec, ok)
              /\ hist' = [hist EXCEPT !.handled = @ + 1,
                                      !.normalized = Bump(@, idx),
                                      !.inserted = Bump(@, idx),
                                      !.rowsAdded = IF stored THEN @ + 1 ELSE @,
                                      !.stored = IF stored
                                                 THEN @ \cup {NewRow(db, rec).id}
                                                 ELSE @,
                                      !.insertsFailed = IF stored THEN @ ELSE @ + 1,
                                      !.prov = IF stored
                                               THEN Append(@, [id |-> NewRow(db, rec).id,
                                                               batch |-> hist.batchNo,
                                                               pos |-> idx])
                                               ELSE @]
    /\ pc' = "count"
    /\ UNCHANGED <<message_lengths, messages, idx, gw, fn>>

\* the mutant tallies a record of negative length under a key of its own,
\* which it adds to the mapping at first use
Count_OwnKey ==
    /\ pc = "count"
    /\ LET rec == process_message(messages[idx]).rec
           key == IF rec.message_length < 0 THEN "Invalid" ELSE rec.length_category
           old(c) == IF c \in DOMAIN message_lengths THEN message_lengths[c] ELSE 0
       IN  message_lengths' =
              [c \in DOMAIN message_lengths \cup {key} |->
                  IF c = key THEN old(c) + 1 ELSE old(c)]
    /\ idx' = idx + 1
    /\ pc' = "process"
    /\ UNCHANGED <<db, messages, hist, gw, fn>>

\* message_lengths[length_category] += 1, the statement after the insert
Count ==
    /\ pc = "count"
    /\ message_lengths' =
          [message_lengths EXCEPT
              ![process_message(messages[idx]).rec.length_category] = @ + 1]
    /\ idx' = idx + 1
    /\ pc' = "process"
    /\ UNCHANGED <<db, messages, hist, gw, fn>>

\* the mutant has no except Exception branch in the loop: an exception of
\* generate_chart reaches main(), which logs it and lets the process end
Report_Unhandled ==
    /\ pc = "process"
    /\ idx > Len(messages)
    /\ \E raises \in BOOLEAN :
          /\ hist' = [hist EXCEPT !.charts = @ + 1, !.chartArg = message_lengths,
                                  !.lastCycle = IF raises THEN "other" ELSE "normal",
                                  !.normalized = NoAttempts,
                                  !.inserted = NoAttempts]
          /\ pc' = IF raises THEN "exited" ELSE "sleep"
    /\ messages' = <<>>
    /\ idx' = 0
    /\ UNCHANGED <<db, message_lengths, gw, fn>>

\* the mutant continues with the next read right after generate_chart
\* returns, without the time.sleep of the normal path
Report_NoSleep ==
    /\ pc = "process"
    /\ idx > Len(messages)
    /\ \E raises \in BOOLEAN :
          hist' = [hist EXCEPT !.charts = @ + 1, !.chartArg = message_lengths,
                               !.lastCycle = IF raises THEN "other" ELSE "normal",
                               !.normalized = NoAttempts,
                               !.inserted = NoAttempts]
    /\ messages' = <<>>
    /\ idx' = 0
    /\ pc' = IF hist'.lastCycle = "other" THEN "sleep" ELSE "poll"
    /\ UNCHANGED <<db, message_lengths, gw, fn>>

\* the mutant calls generate_chart from inside the for loop, when the
\* last record of the batch is still to be processed
Report_Early ==
    /\ pc = "process"
    /\ idx >= Len(messages)
    /\ \E raises \in BOOLEAN :
          hist' = [hist EXCEPT !.charts = @ + 1, !.chartArg = message_lengths,
                               !.lastCycle = IF raises THEN "other" ELSE "normal",
                               !.normalized = NoAttempts,
                               !.inserted = NoAttempts]
    /\ messages' = <<>>
    /\ idx' = 0
    /\ pc' = "sleep"
    /\ UNCHANGED <<db, message_lengths, gw, fn>>

\* the for loop is over: generate_chart(message_lengths), which may raise
\* (savefig); both ways lead to time.sleep(interval_secs)
Report ==
    /\ pc = "process"
    /\ idx > Len(messages)
    /\ \E raises \in BOOLEAN :
          hist' = [hist EXCEPT !.charts = @ + 1, !.chartArg = message_lengths,
                               !.lastCycle = IF raises THEN "other" ELSE "normal",
                               !.normalized = NoAttempts,
                               !.inserted = NoAttempts]
    /\ messages' = <<>>
    /\ idx' = 0
    /\ pc' = "sleep"
    /\ UNCHANGED <<db, message_lengths, gw, fn>>

\* the mutant calls init_db at the top of every cycle instead of once
\* before the loop
Sleep_Reinit ==
    /\ pc = "sleep"
    /\ pc' = "poll"
    /\ \E outcome \in InitOutcomes :
          /\ db' = init_db(db, outcome)
          /\ hist' = [hist EXCEPT !.cycles = IF @ < MaxCycles THEN @ + 1 ELSE @,
                                  !.sleeps = @ + 1,
                                  !.initCalls = IF @ < MaxCycles THEN @ + 1 ELSE @]
    /\ UNCHANGED <<message_lengths, messages, idx, gw, fn>>

\* time.sleep(interval_secs) returns and while True starts the next cycle
Sleep ==
    /\ pc = "sleep"
    /\ pc' = "poll"
    /\ hist' = [hist EXCEPT !.cycles = IF @ < MaxCycles THEN @ + 1 ELSE @,
                            !.sleeps = @ + 1]
    /\ UNCHANGED <<db, message_lengths, messages, idx, gw, fn>>

\* KeyboardInterrupt is raised in the main thread wherever it stands; no
\* except Exception clause catches it, main() logs and the process ends
Interrupt ==
    /\ pc # "exited"
    /\ pc' = "exited"
    /\ hist' = [hist EXCEPT !.interrupted = TRUE, !.exitedFrom = pc]
    /\ UNCHANGED <<db, message_lengths, messages, idx, gw, fn>>

Cycle ==
    \/ Start
    \/ PollMissing
    \/ PollUndecodable
    \/ PollNotIterable
    \/ PollBatch
    \/ Skip
    \/ Insert
    \/ Count
    \/ Report
    \/ Sleep

Next == Cycle \/ Interrupt

Spec == Init /\ [][Next]_vars

\* the interpreter keeps running the loop: every step of it that can be
\* taken is taken; nothing obliges the user to interrupt
FairSpec == Spec /\ WF_vars(Cycle)

(***************************************************************************)
(* The gateway on its own: any client calling init_db, insert_message and  *)
(* delete_message in any order, as main() of db_sqlite_case.py does.       *)
(***************************************************************************)
GwMessages == {process_message(r15).rec, process_message(rLong).rec}

CallOutcomes == {"ok", "connect_failed"}

Called(op, arg, outcome) ==
    [gw EXCEPT !.calls = @ + 1, !.op = op, !.arg = arg, !.outcome = outcome,
               !.before = db]

\* "with sqlite3.connect(db_path) as conn" commits or rolls back when the
\* block is left and does not close conn; no call of conn.close() follows.
\* The connection is closed when the interpreter destroys the object:
\* at once on return where objects are reference-counted, at some later
\* collection otherwise.  collected says which of the two happened.
LeftOpen(outcome, collected) ==
    IF outcome # "connect_failed" /\ ~collected THEN 1 ELSE 0

GwInitDb ==
    /\ gw.calls < MaxCalls
    /\ \E outcome \in InitOutcomes, collected \in BOOLEAN :
          /\ db' = init_db(db, outcome)
          /\ gw' = [Called("init", 0, outcome) EXCEPT
                       !.assigned = IF outcome = "connect_failed" THEN @ ELSE <<>>,
                       !.open = @ + LeftOpen(outcome, collected)]
    /\ UNCHANGED <<pc, message_lengths, messages, idx, hist, fn>>

GwInsert ==
    /\ gw.calls < MaxCalls
    /\ \E message \in GwMessages, outcome \in CallOutcomes, collected \in BOOLEAN :
          /\ db' = insert_message(db, message, outcome = "ok")
          /\ gw' = [Called("insert", 0, outcome) EXCEPT
                       !.assigned = IF InsertCommits(db, message, outcome = "ok")
                                    THEN Append(@, NewRow(db, message).id)
                                    ELSE @,
                       !.msg = message,
                       !.open = @ + LeftOpen(outcome, collected)]
    /\ UNCHANGED <<pc, message_lengths, messages, idx, hist, fn>>

GwDelete ==
    /\ gw.calls < MaxCalls
    /\ \E message_id \in 1..MaxCalls, outcome \in CallOutcomes, collected \in BOOLEAN :
          /\ db' = delete_message(db, message_id, outcome = "ok")
          /\ gw' = [Called("delete", message_id, outcome) EXCEPT
                       !.open = @ + LeftOpen(outcome, collected)]
    /\ UNCHANGED <<pc, message_lengths, messages, idx, hist, fn>>

\* SELECT ... WHERE message = ? AND author = ? as main() of db_sqlite_case.py
\* runs it: the parameters are compared as text with the TEXT columns, and
\* a NULL parameter equals nothing
Select(d, message, author) ==
    {r \in d.rows : /\ message.t # "null" /\ r.message = ColumnText(message)
                    /\ author.t # "null" /\ r.author = ColumnText(author)}

GwNext == GwInitDb \/ GwInsert \/ GwDelete

GatewaySpec == Init /\ [][GwNext]_vars

(***************************************************************************)
(* categorize_message_length on its own, for every length up to MaxLength  *)
(***************************************************************************)
Classify ==
    /\ \E n \in 0..MaxLength :
          fn' = [n |-> n, label |-> categorize_message_length(n)]
    /\ UNCHANGED <<pc, db, message_lengths, messages, idx, hist, gw>>

ClassifySpec == Init /\ [][Classify]_vars

(***************************************************************************)
(* Properties                                                              *)
(***************************************************************************)
BetweenRecords == pc \in {"poll", "process", "sleep"}

\* C1: a count is incremented only after insert_message stored the record,
\* so between records the three counts sum to the number of rows the loop
\* has added to streamed_messages.
C1_CountsEqualRowsAdded ==
    BetweenRecords => CountSum(message_lengths) = hist.rowsAdded

\* C2: when init_db fails the process stops: the loop never polls the
\* source and never attempts an insert.
C2_FailedInitStopsProcess ==
    hist.initOutcome \in {"connect_failed", "create_failed"}
        => pc \notin {"poll", "process", "count", "sleep"}

\* position i of the batch has been handled by the for loop
Handled(i) == i < idx \/ (i = idx /\ pc = "count")

\* C3: in a cycle over a decoded batch, the records are handled in source
\* order, each normalized exactly once and, when normalization succeeded,
\* given exactly one insert attempt, whatever happened to the other records.
C3_EachRecordOnceInOrder ==
    pc \in {"process", "count"} =>
        \A i \in 1..Len(messages) :
            /\ hist.normalized[i] = IF Handled(i) THEN 1 ELSE 0
            /\ hist.inserted[i] =
                  IF Handled(i) /\ process_message(messages[i]).ok THEN 1 ELSE 0

\* C3 witness: the batch whose first record cannot be bound and so fails to
\* insert has been handled to its end, the second record stored.
C3_Witness ==
    /\ pc = "process"
    /\ messages = <<rList, r15>>
    /\ idx = 3
    /\ hist.inserted = [i \in 1..MaxBatchLen |-> IF i <= 2 THEN 1 ELSE 0]
    /\ hist.insertsFailed >= 1
    /\ hist.rowsAdded >= 1

\* C4: the loop never stops by itself: unless the user interrupts it, it
\* comes back to the poll step again and again, whichever way a cycle ends.
C4_PollsForeverUnlessInterrupted ==
    ([]<>(pc = "poll")) \/ <>(hist.interrupted)

\* C4 witness: the loop polls again after a cycle that ended in the
\* except Exception branch, with two cycles behind it and no interrupt.
C4_Witness ==
    /\ pc = "poll"
    /\ hist.cycles >= 2
    /\ hist.lastCycle = "other"
    /\ ~hist.interrupted

LoopRows == {r \in db.rows : r.id \in hist.stored}

\* C5: process_message rejects every message_length that is present and is
\* not a non-negative integer, so every row the loop stores has
\* message_length >= 0.
C5_StoredLengthsNonNegative == \A r \in LoopRows : r.message_length >= 0

StrictlyIncreasing(ids) ==
    \A i, j \in 1..Len(ids) : i < j => ids[i] < ids[j]

\* C6: after init_db, every identifier given to a new row is greater than
\* every identifier given before it, those of deleted rows included; no two
\* rows share an identifier and none is given twice.
C6_IdentifiersIncreaseNeverReused ==
    /\ StrictlyIncreasing(gw.assigned)
    /\ \A r1, r2 \in db.rows : r1.id = r2.id => r1 = r2
    /\ RowIds(db) \subseteq {gw.assigned[i] : i \in 1..Len(gw.assigned)}

\* C6 witness: an insert has just stored a row although the row that held
\* the largest identifier had been deleted before it.
C6_Witness ==
    /\ gw.op = "insert"
    /\ db.rows # gw.before.rows
    /\ Len(gw.assigned) >= 2
    /\ gw.assigned[Len(gw.assigned) - 1] \notin RowIds(gw.before)
    /\ gw.assigned[Len(gw.assigned)] \in RowIds(db)

\* C7: delete_message(id) removes the row whose identifier is id and no
\* other; when no row has that identifier the table is left as it was, so
\* a second call with the same id changes nothing more.
C7_DeleteRemovesOnlyThatRow ==
    gw.op = "delete" =>
        LET hit == {r \in gw.before.rows : r.id = gw.arg}
        IN  /\ db.exists = gw.before.exists
            /\ db.seq = gw.before.seq
            /\ db.rows \subseteq gw.before.rows
            /\ gw.before.rows \ db.rows \subseteq hit
            /\ hit = {} => db = gw.before
            /\ gw.outcome = "ok" =>
                  /\ db.rows = gw.before.rows \ hit
                  /\ delete_message(db, gw.arg, TRUE) = db

\* C7 witness: a delete removed an existing row from a table that also
\* held a row with a smaller identifier.
C7_Witness ==
    /\ gw.op = "delete"
    /\ gw.outcome = "ok"
    /\ gw.arg \in RowIds(gw.before)
    /\ \E r \in db.rows : r.id < gw.arg

\* C8: after a successful init_db the table exists and holds no row,
\* whatever rows had been stored before.
C8_InitLeavesEmptyTable ==
    (gw.op = "init" /\ gw.outcome = "ok") =>
        db.exists /\ db.rows = {} /\ db.seq = 0

\* C8 witness: a successful init_db on a table that held inserted rows.
C8_Witness ==
    /\ gw.op = "init"
    /\ gw.outcome = "ok"
    /\ Cardinality(gw.before.rows) >= 2
    /\ db.rows = {}

Normalizable(items) ==
    Cardinality({i \in 1..Len(items) : process_message(items[i]).ok})

\* C9: after k completed cycles over an unchanged source with n
\* normalizable records, every insert having succeeded, the table holds
\* exactly k*n rows and the counts sum to k*n; one cycle over the batch
\* (length 15, length absent) gives two rows and Short = 2.
C9_EveryCycleReinsertsAll ==
    (/\ pc = "poll"
     /\ hist.source.kind = "array"
     /\ hist.unchanged
     /\ hist.insertsFailed = 0
     /\ hist.cycles < MaxCycles) =>
        LET n == Normalizable(hist.source.items)
        IN  /\ Cardinality(db.rows) = hist.cycles * n
            /\ CountSum(message_lengths) = hist.cycles * n
            /\ (hist.source.items = <<r15, rAbsent>> /\ hist.cycles = 1) =>
                  message_lengths = [ZeroCounts EXCEPT !["Short"] = 2]

\* the same relation for the rows the loop itself has stored
RowsOfLoopAreCyclesTimesBatch ==
    (/\ pc = "poll"
     /\ hist.source.kind = "array"
     /\ hist.unchanged
     /\ hist.insertsFailed = 0
     /\ hist.cycles < MaxCycles) =>
        LET n == Normalizable(hist.source.items)
        IN  /\ Cardinality(LoopRows) = hist.cycles * n
            /\ CountSum(message_lengths) = hist.cycles * n

\* C10: an interrupt takes effect only between cycles: once the for loop
\* over a batch has started, the process does not exit before the batch is
\* handled and the chart drawn.
C10_ExitOnlyBetweenCycles ==
    pc = "exited" => hist.exitedFrom \notin {"process", "count"}

\* C11: for every non-negative length n, categorize_message_length(n) is
\* Short iff n < 20, Medium iff 20 <= n < 50 and Long iff n >= 50, one
\* label for every n (19 Short, 20 Medium, 49 Medium, 50 Long).
C11_BandsOfCategorize ==
    fn.label # "none" =>
        /\ fn.label \in {"Short", "Medium", "Long"}
        /\ fn.label = "Short" <=> fn.n < 20
        /\ fn.label = "Medium" <=> (20 <= fn.n /\ fn.n < 50)
        /\ fn.label = "Long" <=> fn.n >= 50

\* C11 witness: the lower bound of the Medium band has been classified.
C11_Witness == fn.n = 20 /\ fn.label = "Medium"

\* the seven fields of a stored row, without its id
FieldsOf(r) ==
    [author |-> r.author, timestamp |-> r.timestamp, message |-> r.message,
     category |-> r.category, keyword_mentioned |-> r.keyword_mentioned,
     message_length |-> r.message_length, length_category |-> r.length_category]

\* an insert_message call has just stored a row whose (message, author)
\* pair no other row of the table has
InsertedUnique ==
    /\ gw.op = "insert"
    /\ db.rows # gw.before.rows
    /\ Select(gw.before, gw.msg.message, gw.msg.author) = {}

\* C12: after insert_message, the query by the record's (message, author)
\* pair, unique in the table, returns exactly one row, whose seven fields
\* equal the inserted record's; deleting its id leaves no row for the pair.
C12_InsertQueryDeleteRoundTrip ==
    InsertedUnique =>
        LET hits == Select(db, gw.msg.message, gw.msg.author)
        IN  /\ Cardinality(hits) = 1
            /\ \A r \in hits :
                  /\ FieldsOf(r) = gw.msg
                  /\ Select(delete_message(db, r.id, TRUE),
                            gw.msg.message, gw.msg.author) = {}

\* the same round trip for records whose text fields are Python str
RoundTripOfTextRecords ==
    (InsertedUnique /\ \A v \in TextFields(gw.msg) : v.t = "str") =>
        LET hits == Select(db, gw.msg.message, gw.msg.author)
        IN  /\ Cardinality(hits) = 1
            /\ \A r \in hits :
                  /\ FieldsOf(r) = gw.msg
                  /\ Select(delete_message(db, r.id, TRUE),
                            gw.msg.message, gw.msg.author) = {}

\* C13: every gateway call has closed its connection by the time it
\* returns, on success and on failure: between calls no connection is open.
C13_NoConnectionLeftOpen == gw.open = 0

\* C14: a poll cycle whose source is missing or cannot be decoded changes
\* nothing: the read leads straight to the sleep with the table, the tally
\* and the number of rows the loop has added as they were, no record of a
\* batch is taken up and generate_chart is not called in that cycle; the
\* sleep that follows changes none of these either and leads to the next
\* poll.
C14_FailedReadChangesNothing ==
    [][/\ (pc = "poll" /\ hist'.kind \in {Missing.kind, Undecodable.kind})
           => /\ pc' \in {"sleep", "exited"}
              /\ pc' = "sleep" =>
                    /\ db' = db
                    /\ message_lengths' = message_lengths
                    /\ hist'.rowsAdded = hist.rowsAdded
                    /\ hist'.handled = hist.handled
                    /\ hist'.charts = 0
                    /\ messages' = <<>>
       /\ (pc = "sleep" /\ hist.kind \in {Missing.kind, Undecodable.kind})
           => /\ pc' \in {"poll", "exited"}
              /\ db' = db
              /\ message_lengths' = message_lengths
              /\ hist'.rowsAdded = hist.rowsAdded
              /\ hist'.charts = 0]_vars

\* a decode error met after an earlier cycle stored and counted a record
C14_Witness ==
    /\ pc = "sleep"
    /\ hist.kind = Undecodable.kind
    /\ hist.lastCycle = "decode"
    /\ hist.rowsAdded >= 1
    /\ CountSum(message_lengths) >= 1
    /\ hist.charts = 0

\* C15 as stated: every poll cycle whose source decodes has called
\* generate_chart exactly once by the time it sleeps.
C15_ChartOnceWhenSourceDecodes ==
    (pc = "sleep" /\ hist.kind \notin {Missing.kind, Undecodable.kind})
        => hist.charts = 1

\* C15, amended: in every poll cycle whose source decodes to an array,
\* generate_chart is not called while records are being processed; the
\* cycle reaches its sleep only by the one call of generate_chart, made
\* when every record of the batch has been processed, with the tally as
\* it stands after the last count; the call leaves the tally unchanged
\* and no second call follows before the next read.
C15_ChartOncePerArrayCycle ==
    [][/\ (hist'.kind = Array(<<>>).kind /\ pc' \in {"process", "count"})
           => hist'.charts = 0
       /\ (hist'.kind = Array(<<>>).kind /\ pc # "sleep" /\ pc' = "sleep")
           => /\ pc = "process"
              /\ idx > Len(messages)
              /\ \A i \in 1..Len(messages) : hist.normalized[i] = 1
              /\ hist.charts = 0
              /\ hist'.charts = 1
              /\ hist'.chartArg = message_lengths
              /\ message_lengths' = message_lengths
       /\ (hist.kind = Array(<<>>).kind /\ pc = "sleep")
           => /\ hist'.charts = 1
              /\ pc' \in {"sleep", "poll", "exited"}]_vars

\* a cycle of two counted records has handed its tally to generate_chart
C15_Witness ==
    /\ pc = "sleep"
    /\ hist.kind = Array(<<>>).kind
    /\ hist.charts = 1
    /\ hist.chartArg = message_lengths
    /\ CountSum(hist.chartArg) >= 2

\* C16: cycles never overlap and each ends with exactly one sleep: the
\* file is read only when the loop stands at the poll, where, unless this
\* is the first read, exactly one time.sleep has returned since the read
\* before it, whichever of the four paths that cycle took; no sleep
\* happens while a batch is being processed, and a sleep is always followed
\* by the next poll.
C16_OneSleepBetweenReads ==
    [][/\ (pc = "poll" /\ hist.kind # NotRead.kind) => hist.sleeps = 1
       /\ (pc = "poll" /\ hist.kind = NotRead.kind) => hist.sleeps = 0
       /\ pc \in {"process", "count", "sleep"} => hist.sleeps = 0
       /\ hist'.kind # hist.kind => pc = "poll"
       /\ hist'.sleeps # hist.sleeps
           => \/ pc = "sleep" /\ pc' = "poll" /\ hist'.sleeps = 1
              \/ pc = "poll" /\ hist'.sleeps = 0]_vars

\* the next read is due after the sleep of a cycle whose chart call raised
C16_Witness ==
    /\ pc = "poll"
    /\ hist.sleeps = 1
    /\ hist.kind = Array(<<>>).kind
    /\ hist.lastCycle = "other"
    /\ hist.charts = 1

\* C17: in every reachable state of the ingestion loop the tally has
\* exactly the keys Short, Medium and Long, each mapped to a non-negative
\* integer; all three are zero until the first record has been handled.
C17_TallyHasThreeKeys ==
    /\ DOMAIN message_lengths = Categories
    /\ \A c \in Categories : message_lengths[c] \in Nat
    /\ hist.handled = 0 => message_lengths = ZeroCounts

\* three records counted in two cycles, two of the keys in use
C17_Witness ==
    /\ pc = "poll"
    /\ message_lengths["Short"] >= 1
    /\ message_lengths["Medium"] >= 1
    /\ CountSum(message_lengths) >= 3

\* C18: in one run of consume_messages_from_file init_db is called exactly
\* once: the call is the first step of the run, made when the file has not
\* been read and no record has been handed to insert_message; after it no
\* step calls init_db again, and no step of the loop drops the table or
\* removes a row from it (delete_message is never called).
C18_InitOnceBeforeTheLoop ==
    [][/\ pc = "start"
           => /\ hist.initCalls = 0
              /\ hist.kind = NotRead.kind
              /\ hist.handled = 0
              /\ hist.inserted = NoAttempts
              /\ hist.rowsAdded = 0
       /\ (pc = "start" /\ pc' = "poll") => hist'.initCalls = 1
       /\ pc \in {"poll", "process", "count", "sleep"}
           => /\ hist.initCalls = 1
              /\ hist'.initCalls = 1
              /\ db'.exists = db.exists
              /\ db.rows \subseteq db'.rows]_vars

\* the third cycle is due: rows stored, the table initialized once
C18_Witness ==
    /\ pc = "poll"
    /\ hist.cycles >= 2
    /\ hist.initCalls = 1
    /\ hist.rowsAdded >= 2
    /\ Cardinality(db.rows) >= 2

\* C19: in every reachable state of the table, every row the ingestion
\* loop stored has as its length_category the label that
\* categorize_message_length gives for the message_length of that row.
C19_StoredCategoryMatchesLength ==
    \A r \in LoopRows :
        r.length_category = categorize_message_length(r.message_length)

\* the loop has stored rows of two different categories
C19_Witness ==
    /\ \E r \in LoopRows : r.message_length = 25 /\ r.length_category = "Medium"
    /\ \E r \in LoopRows : r.message_length < 0 /\ r.length_category = "Short"

\* a stored row p was processed before a stored row q: in an earlier
\* batch, or in the same batch at an earlier position of the source
ProcessedBefore(p, q) ==
    \/ p.batch < q.batch
    \/ p.batch = q.batch /\ p.pos < q.pos

\* C20: stored identifiers follow processing order: of two rows the loop
\* inserted, the one from the earlier cycle, or from the earlier position
\* of the source within one cycle, has the smaller identifier; and no step
\* of the run lowers any of the three counts.
C20_IdentifiersFollowProcessingOrder ==
    [][/\ \A i, j \in 1..Len(hist'.prov) :
              ProcessedBefore(hist'.prov[i], hist'.prov[j])
                  => hist'.prov[i].id < hist'.prov[j].id
       /\ \A c \in Categories : message_lengths'[c] >= message_lengths[c]]_vars

\* three rows stored: two from one cycle, one from a later cycle
C20_Witness ==
    /\ Len(hist.prov) >= 3
    /\ \E i, j \in 1..Len(hist.prov) :
          hist.prov[i].batch = hist.prov[j].batch /\ hist.prov[i].pos < hist.prov[j].pos
    /\ \E i, j \in 1..Len(hist.prov) : hist.prov[i].batch < hist.prov[j].batch
    /\ {hist.prov[i].id : i \in 1..Len(hist.prov)} \subseteq RowIds(db)
    /\ CountSum(message_lengths) >= 3


=============================================================================
